---- MODULE Spec2Model ----
(***************************************************************************)
(* A model of appengine-search (src/search/__init__.py): the phrase        *)
(* extractor, the index-entity key names, the Searchable.index(),          *)
(* indexed_title_changed() and full_text_search() operations and the       *)
(* SearchIndexing task handler, over a datastore of index entities.        *)
(*                                                                         *)
(* Representation.  A string is a sequence of atoms; an atom is a run of   *)
(* letters ("lorem"), one punctuation character (".") or one blank (" ").  *)
(* A text is a sequence of fragments (what str.split() returns), each a    *)
(* non-empty sequence of atoms without blanks.  A search phrase (term) is  *)
(* the tuple of the words that ' '.join() glues together; words hold no    *)
(* blank, so two terms are equal exactly when their joined strings are.    *)
(***************************************************************************)
EXTENDS Integers, Sequences, FiniteSets, TLC

VARIABLES
    cfg,       \* the class variables of the searchable model class
    docs,      \* the parent entities in the datastore, by key name
    store,     \* the index entities in the datastore, by key
    indexed,   \* per document, the entity the latest completed index() read
    queue,     \* the indexing tasks in the task queue
    runs,      \* per worker, the index() call in progress and its locals
    recovery,  \* the index() call that aborted last, until its retry ends
    result     \* the latest search and the list it returned, or the
               \* exception the latest call raised

vars == <<cfg, docs, store, indexed, queue, runs, recovery, result>>

-----------------------------------------------------------------------------
(* Module-level constants of src/search/__init__.py                        *)

\* KEY_NAME_DELIMITER = '||', as its two characters.
KEY_NAME_DELIMITER == <<"|", "|">>

\* datastore._MAX_INDEXED_PROPERTIES - 1 is 4999 in the SDK; the model keeps
\* the code's arithmetic and scales the cap down so that a few words already
\* fill several index entities.
MAX_ENTITY_SEARCH_PHRASES == 2

SEARCH_PHRASE_MIN_LENGTH == 4

\* The members of STOP_WORDS among the words the model's texts use.
STOP_WORDS == {"of", "the", "and", "past", "present", "i", "shall", "you",
               "through"}

\* The members of string.punctuation the model's texts use.
Punctuation == {".", ",", "-", "'", "(", "|"}

\* The limit of the two keys-only ancestor fetches, query.fetch(1000).
FETCH_LIMIT == 1000

-----------------------------------------------------------------------------
(* Strings                                                                 *)

\* str.lower() on one atom: the upper-case spellings the model's texts use.
LowerAtom(a) ==
    CASE a = "Lorem" -> "lorem"
      [] a = "LoReM" -> "lorem"
      [] a = "IpSuM" -> "ipsum"
      [] a = "Algorithm" -> "algorithm"
      [] a = "Statue" -> "statue"
      [] a = "Liberty" -> "liberty"
      [] a = "Recalling" -> "recalling"
      [] a = "You" -> "you"
      [] a = "I" -> "i"
      [] OTHER -> a

LowerFragment(frag) == [i \in 1..Len(frag) |-> LowerAtom(frag[i])]

\* text.lower()
LowerText(text) == [i \in 1..Len(text) |-> LowerFragment(text[i])]

\* The atoms of the model in ascending character order (blank, punctuation,
\* digits, upper case, lower case, '|'), the order str comparison induces.
AtomOrder == <<" ", "'", "(", ",", "-", ".", "1", "2", "3", "4", "5", "6",
               "A", "B", "LiteralIndex", "Page", "StemmedIndex", "a",
               "algorithm", "algorithms", "amet", "b", "c", "dolor", "ipsum",
               "liberty", "lorem", "of", "sit", "statue", "statues", "the",
               "|">>

AtomRank(a) ==
    IF \E i \in 1..Len(AtomOrder) : AtomOrder[i] = a
    THEN CHOOSE i \in 1..Len(AtomOrder) : AtomOrder[i] = a
    ELSE 0

\* s < t for two strings given as atom sequences: lexicographic, a proper
\* prefix first.
RECURSIVE SeqLess(_, _)
SeqLess(s, t) ==
    IF t = <<>> THEN FALSE
    ELSE IF s = <<>> THEN TRUE
    ELSE IF AtomRank(Head(s)) # AtomRank(Head(t))
         THEN AtomRank(Head(s)) < AtomRank(Head(t))
         ELSE SeqLess(Tail(s), Tail(t))

\* A finite set of strings as a sequence, ascending when up and descending
\* otherwise.
RECURSIVE SortSet(_, _)
SortSet(S, up) ==
    IF S = {} THEN <<>>
    ELSE LET m == CHOOSE x \in S : \A y \in S \ {x} :
                      IF up THEN ~SeqLess(y, x) ELSE ~SeqLess(x, y)
         IN  <<m>> \o SortSet(S \ {m}, up)

\* seq[m..n] clipped to the sequence, Python's seq[m-1:n].
Slice(seq, m, n) ==
    IF m > n \/ m > Len(seq) THEN <<>>
    ELSE SubSeq(seq, m, IF n > Len(seq) THEN Len(seq) ELSE n)

\* The first n elements of a result list: fetch(limit=n).
Take(seq, n) == Slice(seq, 1, n)

Range(seq) == {seq[i] : i \in 1..Len(seq)}

\* The length of a word in characters.
WordLen(w) == Len(w)

\* s.replace(sep, ' ').split() on one fragment: the runs of atoms between
\* occurrences of the one-character separator, empty runs dropped.
RECURSIVE SplitAt(_, _, _)
SplitAt(frag, sep, cur) ==
    IF frag = <<>> THEN (IF cur = <<>> THEN <<>> ELSE <<cur>>)
    ELSE IF Head(frag) = sep
         THEN (IF cur = <<>> THEN <<>> ELSE <<cur>>) \o SplitAt(Tail(frag), sep, <<>>)
         ELSE SplitAt(Tail(frag), sep, Append(cur, Head(frag)))

\* The concatenation of a sequence of sequences.
RECURSIVE Concat(_)
Concat(seqs) ==
    IF seqs = <<>> THEN <<>> ELSE Head(seqs) \o Concat(Tail(seqs))

\* PUNCTUATION_REGEX.subn('', frag): the word left and the number of
\* punctuation characters removed.
RECURSIVE StripPunctuation(_)
StripPunctuation(frag) ==
    IF frag = <<>> THEN [word |-> "", replaced |-> 0]
    ELSE LET rest == StripPunctuation(Tail(frag))
         IN  IF Head(frag) \in Punctuation
             THEN [word |-> rest.word, replaced |-> rest.replaced + 1]
             ELSE [word |-> Head(frag) \o rest.word, replaced |-> rest.replaced]

\* PUNCTUATION_REGEX.sub(' ', frag).split(): the letter runs of a fragment.
RECURSIVE PunctuationToBlank(_)
PunctuationToBlank(frag) ==
    IF frag = <<>> THEN <<>>
    ELSE IF Head(frag) \in Punctuation
         THEN PunctuationToBlank(Tail(frag))
         ELSE <<Head(frag)>> \o PunctuationToBlank(Tail(frag))

-----------------------------------------------------------------------------
(* Phrase extraction                                                       *)

\* text.replace('-', ' ').split() after text.lower(): the fragments of
\* get_search_phraseset.
RECURSIVE HyphenSplit(_)
HyphenSplit(text) ==
    IF text = <<>> THEN <<>>
    ELSE SplitAt(Head(text), "-", <<>>) \o HyphenSplit(Tail(text))

\* PUNCTUATION_REGEX.sub(' ', text).lower().split(): every letter run of the
\* text, lower-cased, in order.
RECURSIVE Keywords(_)
Keywords(text) ==
    IF text = <<>> THEN <<>>
    ELSE LowerFragment(PunctuationToBlank(Head(text))) \o Keywords(Tail(text))

\* One pass of the for loop of get_search_phraseset over frags[i..]: st holds
\* phrases, two_words, three_words and three_words_no_stop.
RECURSIVE ScanFragments(_, _, _)
ScanFragments(frags, i, st) ==
    IF i > Len(frags) THEN st.phrases
    ELSE
    LET frag == frags[i]
        sub == StripPunctuation(frag)
        word == sub.word
        replaced == sub.replaced
        not_end_punctuation ==
            replaced > 1 \/ frag[Len(frag)] \notin Punctuation
        reset == replaced > 0 /\ not_end_punctuation
        two0 == IF reset THEN <<>> ELSE st.two_words
        three0 == Append(IF reset THEN <<"", "">> ELSE st.three_words, word)
        stop == word \in STOP_WORDS
        two1 == IF stop THEN <<>> ELSE Append(two0, word)
        no_stop1 == Append(st.three_words_no_stop, ~stop)
        added ==
            IF stop THEN {}
            ELSE (IF WordLen(word) >= SEARCH_PHRASE_MIN_LENGTH
                  THEN {<<word>>} ELSE {})
                 \cup (IF Len(two1) = 2 THEN {two1} ELSE {})
                 \cup (IF Len(three0) = 3 /\ no_stop1[1] THEN {three0} ELSE {})
        two2 == IF ~stop /\ Len(two1) = 2 THEN Tail(two1) ELSE two1
    IN  ScanFragments(frags, i + 1,
                      [phrases |-> st.phrases \cup added,
                       two_words |-> two2,
                       three_words |-> Tail(three0),
                       three_words_no_stop |-> Tail(no_stop1)])

\* Searchable.get_search_phraseset(text)
get_search_phraseset(text) ==
    IF text = <<>> THEN {}
    ELSE ScanFragments(HyphenSplit(LowerText(text)), 1,
                       [phrases |-> {}, two_words |-> <<>>,
                        three_words |-> <<"", "">>,
                        three_words_no_stop |-> <<FALSE, FALSE>>])

\* Searchable.get_simple_search_phraseset(text)
get_simple_search_phraseset(text) ==
    IF text = <<>> THEN {}
    ELSE {<<w>> : w \in {x \in Range(Keywords(text)) \ STOP_WORDS :
                             WordLen(x) >= SEARCH_PHRASE_MIN_LENGTH}}

\* Stemmer.stemWord on one word: the Porter2 stem, given for the inflected
\* words of the model's texts; every other word is its own stem.
StemOf(w) ==
    CASE w = "statues" -> "statue"
      [] w = "algorithms" -> "algorithm"
      [] OTHER -> w

\* Stemmer.stemWord(phrase) on a phrase: the stemmer reads the phrase as one
\* string and rewrites its suffix, the last word.
stemWord(phrase) ==
    IF phrase = <<>> THEN phrase
    ELSE [phrase EXCEPT ![Len(phrase)] = StemOf(phrase[Len(phrase)])]

\* Stemmer.stemWords(words) on a set of phrases, as a set.
stemWords(words) == {stemWord(w) : w \in words}

-----------------------------------------------------------------------------
(* Documents and index entities                                            *)

\* The kind of the searchable model (class Page(Searchable, db.Model)).
Kind == "Page"

\* The string of a text: its fragments joined by single blanks.
RECURSIVE JoinText(_)
JoinText(text) ==
    IF text = <<>> THEN <<>>
    ELSE IF Len(text) = 1 THEN Head(text)
    ELSE Head(text) \o <<" ">> \o JoinText(Tail(text))

\* str(index_num)
NumStr(n) == <<ToString(n)>>

\* StemmedIndex if INDEX_STEMMING else LiteralIndex
IndexKlass(stemming) == IF stemming THEN "StemmedIndex" ELSE "LiteralIndex"

\* str(key.id_or_name()): the key names the model uses are one atom each,
\* but for the one that ends in a bar.
KeyAtoms(key) == IF key = "a|" THEN <<"a", "|">> ELSE <<key>>

\* SearchIndex.get_index_key_name(parent, index_num), index_num already a
\* string.  self is the parent entity: its key name and its properties.
get_index_key_name(self, index_num) ==
    LET default == <<Kind, " ">> \o KeyAtoms(self.key)
        uniq_key == default \o KEY_NAME_DELIMITER \o index_num
        title == IF cfg.title_prop /\ self.title # <<>>
                 THEN JoinText(self.title) ELSE default
    IN  uniq_key \o KEY_NAME_DELIMITER \o title

\* key_name.split(KEY_NAME_DELIMITER): cut at every '||' found left to right.
RECURSIVE SplitName(_, _)
SplitName(name, cur) ==
    IF name = <<>> THEN <<cur>>
    ELSE IF Len(name) >= 2 /\ SubSeq(name, 1, 2) = KEY_NAME_DELIMITER
         THEN <<cur>> \o SplitName(SubSeq(name, 3, Len(name)), <<>>)
         ELSE SplitName(Tail(name), Append(cur, Head(name)))

\* SearchIndex.get_title(key_name)
get_title(key_name) ==
    LET frags == SplitName(key_name, <<>>)
    IN  IF Len(frags) < 3 THEN <<"Unknown Title">> ELSE frags[3]

\* SearchIndex.get_index_num(key_name)
get_index_num(key_name) ==
    LET frags == SplitName(key_name, <<>>)
    IN  IF Len(frags) < 2 THEN <<"1">> ELSE frags[2]

\* The datastore key of the index entity put_index writes: a child of the
\* parent's key, of kind klass, named by get_index_key_name.
IndexKey(self, klass, index_num) ==
    [parent |-> self.key, klass |-> klass,
     name |-> get_index_key_name(self, index_num)]

\* The key as one string, for the key order of query results.
KeyString(k) == <<Kind, k.parent, k.klass>> \o k.name

\* A set of keys in ascending key order, the order in which a query made of
\* equality filters only returns its results.
RECURSIVE SortKeys(_)
SortKeys(S) ==
    IF S = {} THEN <<>>
    ELSE LET m == CHOOSE x \in S : \A y \in S \ {x} :
                      ~SeqLess(KeyString(y), KeyString(x))
         IN  <<m>> \o SortKeys(S \ {m})

\* cls.put_index(parent, phrases, index_num) on the datastore st: the entity
\* under its key is created or overwritten.
put_index(st, self, klass, phrases, index_num) ==
    LET key == IndexKey(self, klass, index_num)
    IN  [k \in DOMAIN st \cup {key} |->
            IF k = key THEN [parent_kind |-> Kind, phrases |-> phrases]
            ELSE st[k]]

\* db.delete(keys)
db_delete(st, keys) == [k \in DOMAIN st \ keys |-> st[k]]

\* FetchIndexKeys with fetch(1): only the first key is seen.
FetchIndexKeys_One(st, parent, klass) ==
    Take(SortKeys({k \in DOMAIN st : k.parent = parent /\ k.klass = klass}), 1)

\* klass.all(keys_only=True).ancestor(key).fetch(1000)
FetchIndexKeys(st, parent, klass) ==
    Take(SortKeys({k \in DOMAIN st : k.parent = parent /\ k.klass = klass}),
         FETCH_LIMIT)

-----------------------------------------------------------------------------
(* Searchable.get_search_phrases and Searchable.index                      *)

\* The properties of the model class that hold strings, with their values.
Properties(self) == [title |-> self.title, content |-> self.content]

\* indexing_func: get_search_phraseset when INDEX_MULTI_WORD, else
\* get_simple_search_phraseset.
IndexingFunc(text) ==
    IF cfg.multi_word THEN get_search_phraseset(text)
    ELSE get_simple_search_phraseset(text)

\* The set that get_search_phrases collects: over every property that
\* INDEX_ONLY admits, the phrases of its value, stemmed when INDEX_STEMMING.
PhraseSet(self) ==
    UNION {IF cfg.stemming
           THEN stemWords(IndexingFunc(Properties(self)[p]))
           ELSE IndexingFunc(Properties(self)[p]) :
           p \in {q \in DOMAIN Properties(self) :
                    cfg.index_only = {} \/ q \in cfg.index_only}}

\* Searchable.get_search_phrases(): list(phrases).  The order of a set's
\* elements is fixed by the interpreter, not by the code: cfg.ascending
\* picks one of two orders for the whole behaviour.
get_search_phrases(self) == SortSet(PhraseSet(self), cfg.ascending)

\* The local variables of index() at the head of its while loop.
IndexLoopStart(self, st) ==
    LET search_phrases == get_search_phrases(self)
    IN  [search_phrases |-> search_phrases,
         previous_index_keys |->
             IF cfg.multi_entities
             THEN FetchIndexKeys(st, self.key, IndexKlass(cfg.stemming))
             ELSE <<>>,
         num_phrases |-> Len(search_phrases),
         start_index |-> 0,
         entity_num |-> 1,
         index_keys |-> <<>>]

\* IndexLoopLocals with entity_num left as it is: every put_index of the
\* run goes to index entity 1.
IndexLoopLocals_SameNum(self, loc) ==
    LET cur_num_phrases ==
            IF loc.num_phrases < MAX_ENTITY_SEARCH_PHRASES
            THEN loc.num_phrases ELSE MAX_ENTITY_SEARCH_PHRASES
        index_key == IndexKey(self, IndexKlass(cfg.stemming),
                              NumStr(loc.entity_num))
    IN  [loc EXCEPT !.index_keys = Append(@, index_key),
                    !.start_index = @ + cur_num_phrases,
                    !.num_phrases = IF cfg.multi_entities
                                    THEN @ - cur_num_phrases ELSE 0]

\* IndexLoopLocals that goes on to the next index entity whatever
\* INDEX_USES_MULTI_ENTITIES says.
IndexLoopLocals_GoOn(self, loc) ==
    LET cur_num_phrases ==
            IF loc.num_phrases < MAX_ENTITY_SEARCH_PHRASES
            THEN loc.num_phrases ELSE MAX_ENTITY_SEARCH_PHRASES
        index_key == IndexKey(self, IndexKlass(cfg.stemming),
                              NumStr(loc.entity_num))
    IN  [loc EXCEPT !.index_keys = Append(@, index_key),
                    !.start_index = @ + cur_num_phrases,
                    !.num_phrases = @ - cur_num_phrases,
                    !.entity_num = @ + 1]

\* One iteration of the while loop of index(): the locals after it.
IndexLoopLocals(self, loc) ==
    LET cur_num_phrases ==
            IF loc.num_phrases < MAX_ENTITY_SEARCH_PHRASES
            THEN loc.num_phrases ELSE MAX_ENTITY_SEARCH_PHRASES
        end_index == loc.start_index + cur_num_phrases
        index_key == IndexKey(self, IndexKlass(cfg.stemming),
                              NumStr(loc.entity_num))
    IN  IF cfg.multi_entities
        THEN [loc EXCEPT !.index_keys = Append(@, index_key),
                         !.start_index = end_index,
                         !.num_phrases = @ - cur_num_phrases,
                         !.entity_num = @ + 1]
        ELSE [loc EXCEPT !.index_keys = Append(@, index_key),
                         !.num_phrases = 0]

\* One iteration of the while loop of index(): the datastore after its
\* put_index.
IndexLoopPut(self, loc, st) ==
    LET cur_num_phrases ==
            IF loc.num_phrases < MAX_ENTITY_SEARCH_PHRASES
            THEN loc.num_phrases ELSE MAX_ENTITY_SEARCH_PHRASES
        end_index == loc.start_index + cur_num_phrases
    IN  put_index(st, self, IndexKlass(cfg.stemming),
                  Slice(loc.search_phrases, loc.start_index + 1, end_index),
                  NumStr(loc.entity_num))

\* IndexDeleteStale without the delete: the previous keys are all kept.
IndexDeleteStale_Keep(loc, st) == st

\* IndexDeleteStale without the 'key not in index_keys' test: every previous
\* key is deleted, rewritten or not.
IndexDeleteStale_All(loc, st) ==
    IF cfg.multi_entities
    THEN db_delete(st, Range(loc.previous_index_keys))
    ELSE st

\* The end of index(): with INDEX_USES_MULTI_ENTITIES, every previous key
\* that this run did not write is deleted.
IndexDeleteStale(loc, st) ==
    IF cfg.multi_entities
    THEN db_delete(st, {k \in Range(loc.previous_index_keys) :
                           k \notin Range(loc.index_keys)})
    ELSE st

\* The while loop of index() run to its end: the locals and the datastore.
RECURSIVE IndexLoop(_, _, _)
IndexLoop(self, loc, st) ==
    IF loc.num_phrases > 0
    THEN IndexLoop(self, IndexLoopLocals(self, loc), IndexLoopPut(self, loc, st))
    ELSE [loc |-> loc, st |-> st]

\* Searchable.index() from start to end on the datastore st.
index(self, st) ==
    LET done == IndexLoop(self, IndexLoopStart(self, st), st)
    IN  IndexDeleteStale(done.loc, done.st)

\* One pass of the for loop of indexed_title_changed over old_index_keys[i..]:
\* the entity under the old key is read and put again under the key name the
\* parent gives now; acc holds the datastore and new_keys.
RECURSIVE RenameLoop(_, _, _, _)
RenameLoop(self, old_index_keys, i, acc) ==
    IF i > Len(old_index_keys) THEN acc
    ELSE
    LET old_key == old_index_keys[i]
        klass == IndexKlass(cfg.stemming)
        index_num == get_index_num(old_key.name)
        phrases == acc.st[old_key].phrases
    IN  RenameLoop(self, old_index_keys, i + 1,
                   [st |-> put_index(acc.st, self, klass, phrases, index_num),
                    new_keys |-> Append(acc.new_keys,
                                        IndexKey(self, klass, index_num))])

\* A rename that leaves the entities under the old keys in place.
indexed_title_changed_KeepOld(self, st) ==
    LET old_index_keys == FetchIndexKeys(st, self.key, IndexKlass(cfg.stemming))
    IN  RenameLoop(self, old_index_keys, 1, [st |-> st, new_keys |-> <<>>]).st

\* Searchable.indexed_title_changed() on the datastore st, for a class that
\* declares INDEX_TITLE_FROM_PROP.
indexed_title_changed(self, st) ==
    LET old_index_keys == FetchIndexKeys(st, self.key, IndexKlass(cfg.stemming))
        done == RenameLoop(self, old_index_keys, 1,
                           [st |-> st, new_keys |-> <<>>])
    IN  db_delete(done.st, {k \in Range(old_index_keys) :
                               k \notin Range(done.new_keys)})

-----------------------------------------------------------------------------
(* Searchable.full_text_search                                             *)

\* A literal tier that filters on the words of the phrase one by one.
LiteralPhrases_Words(keywords, stemming) ==
    {<<keywords[i]>> : i \in 1..Len(keywords)}

\* The 'phrases =' filters of the literal tier: the whole phrase for two
\* keywords, else every three-word window whose first and third words are
\* not stop words; each stemmed when stemming.
LiteralPhrases(keywords, stemming) ==
    LET search_phrases ==
            IF Len(keywords) = 2 THEN {keywords}
            ELSE {SubSeq(keywords, pos, pos + 2) :
                    pos \in {q \in 1..(Len(keywords) - 2) :
                               /\ keywords[q] \notin STOP_WORDS
                               /\ keywords[q + 2] \notin STOP_WORDS}}
    IN  IF stemming THEN {stemWord(ph) : ph \in search_phrases}
        ELSE search_phrases

\* A keyword tier that filters on the keywords as typed.
KeywordPhrases_Unstemmed(keywords, stemming) ==
    {<<keywords[i]>> :
        i \in {j \in 1..Len(keywords) :
                 WordLen(keywords[j]) >= SEARCH_PHRASE_MIN_LENGTH}}

\* The 'phrases =' filters of the keyword tier: the keywords of at least
\* SEARCH_PHRASE_MIN_LENGTH characters, each stemmed when stemming.
KeywordPhrases(keywords, stemming) ==
    {IF stemming THEN <<StemOf(keywords[i])>> ELSE <<keywords[i]>> :
        i \in {j \in 1..Len(keywords) :
                 WordLen(keywords[j]) >= SEARCH_PHRASE_MIN_LENGTH}}

\* A query that looks for each phrase in any index entity of the same parent.
Query_AcrossShards(st, klass, phrases, kind) ==
    SortKeys({k \in DOMAIN st :
                /\ k.klass = klass
                /\ \A ph \in phrases :
                      \E k2 \in DOMAIN st :
                          /\ k2.parent = k.parent /\ k2.klass = klass
                          /\ ph \in Range(st[k2].phrases)
                /\ kind # "" => st[k].parent_kind = kind})

\* klass.all(keys_only=True) with one 'phrases =' filter per phrase and the
\* 'parent_kind =' filter when kind is given: the matching keys in key order.
Query(st, klass, phrases, kind) ==
    SortKeys({k \in DOMAIN st :
                /\ k.klass = klass
                /\ \A ph \in phrases : ph \in Range(st[k].phrases)
                /\ kind # "" => st[k].parent_kind = kind})

\* index_keys after the literal tier.
LiteralTier(st, keywords, limit, kind, stemming, multi_word_literal) ==
    IF Len(keywords) > 1 /\ multi_word_literal
    THEN Take(Query(st, IndexKlass(stemming),
                    LiteralPhrases(keywords, stemming), kind), limit)
    ELSE <<>>

\* single_word_matches: the keys the keyword tier fetches, less those the
\* literal tier already holds.
KeywordTier(st, keywords, index_keys, limit, kind, stemming) ==
    LET new_limit == limit - Len(index_keys)
        fetched == Take(Query(st, IndexKlass(stemming),
                              KeywordPhrases(keywords, stemming), kind),
                        new_limit)
    IN  SelectSeq(fetched, LAMBDA key : key \notin Range(index_keys))

\* A search that puts the keyword tier's keys ahead of the literal tier's.
SearchIndexKeys_KeywordFirst(st, phrase, limit, kind, stemming, literal) ==
    LET keywords == Keywords(phrase)
        index_keys == LiteralTier(st, keywords, limit, kind, stemming, literal)
    IN  IF Len(index_keys) < limit
        THEN KeywordTier(st, keywords, index_keys, limit, kind, stemming)
             \o index_keys
        ELSE index_keys

\* index_keys at the return of full_text_search.
SearchIndexKeys(st, phrase, limit, kind, stemming, multi_word_literal) ==
    LET keywords == Keywords(phrase)
        index_keys == LiteralTier(st, keywords, limit, kind, stemming,
                                  multi_word_literal)
    IN  IF Len(index_keys) < limit
        THEN index_keys \o KeywordTier(st, keywords, index_keys, limit, kind,
                                       stemming)
        ELSE index_keys

\* The list full_text_search returns: (key.parent(), title) per index key.
KeyList(index_keys) ==
    [i \in 1..Len(index_keys) |->
        [parent |-> index_keys[i].parent,
         title |-> get_title(index_keys[i].name)]]

\* Searchable.full_text_search(phrase, limit, kind, stemming,
\* multi_word_literal) on the datastore st.
full_text_search(st, phrase, limit, kind, stemming, multi_word_literal) ==
    KeyList(SearchIndexKeys(st, phrase, limit, kind, stemming,
                            multi_word_literal))

-----------------------------------------------------------------------------
(* Bounds and inputs of the model                                          *)

\* The largest limit a search is given.
MaxLimit == 2

\* The number of index() calls that abort in one behaviour.
MaxAborts == 1

\* A text of plain words.
Words(ws) == [i \in 1..Len(ws) |-> <<ws[i]>>]

\* The key names of the documents of the indexing specifications, and the
\* titles and contents they are given.
Docs == {"a"}
Titles == {<<>>, Words(<<"amet">>)}
Contents == {<<>>, Words(<<"sit", "amet">>),
             Words(<<"Lorem", "ipsum", "dolor">>)}

\* The key names, contents and search phrases of the search specification.
SearchDocs == {"a", "b"}
SearchContents ==
    {Words(<<"Lorem", "ipsum">>), Words(<<"lorem", "dolor", "ipsum">>),
     Words(<<"ipsum", "dolor", "lorem">>),
     Words(<<"sit", "amet">>), Words(<<"amet">>)}
SearchPhrases ==
    {Words(<<"LoReM", "IpSuM">>), Words(<<"sit", "amet">>), Words(<<"amet">>)}

\* The contents and search phrases of the stemming specification.
StemContents ==
    {Words(<<"algorithms">>), Words(<<"algorithm">>),
     Words(<<"Lorem", "algorithms">>)}
StemPhrases ==
    {Words(<<"Algorithm">>), Words(<<"algorithms">>), Words(<<"lorem">>)}

\* The phrases searched for around a rename.
RenamePhrases == {Words(<<"amet">>), Words(<<"LoReM", "IpSuM">>)}

\* The largest index number a key name is built for on request.
MaxIndexNum == 3

\* The key names and titles of the key-name specification: none holds the
\* delimiter.
KeyDocs == {"a", "a|"}
KeyTitles ==
    {<<>>, Words(<<"amet">>), Words(<<"sit", "amet">>), <<<<"|", "amet">>>>,
     <<<<"amet", "|">>>>, <<<<"a", "|", "b">>>>}

\* The settings of the class variables INDEX_USES_MULTI_ENTITIES,
\* INDEX_STEMMING, INDEX_MULTI_WORD, INDEX_TITLE_FROM_PROP (declared or not)
\* and INDEX_ONLY, and the order of list(set).
Configs ==
    [multi_entities : BOOLEAN, stemming : BOOLEAN, multi_word : BOOLEAN,
     title_prop : BOOLEAN, index_only : {{}, {"content"}},
     ascending : BOOLEAN]

-----------------------------------------------------------------------------
(* The index entities of one document                                      *)

\* The keys of the index entities of document d in the class's mode.
ShardKeys(st, d) ==
    {k \in DOMAIN st : k.parent = d /\ k.klass = IndexKlass(cfg.stemming)}

\* The index entities of document d: keys and what is stored under them.
ShardsOf(st, d) == [k \in ShardKeys(st, d) |-> st[k]]

\* The union of the phrases of the index entities of document d.
TermUnion(st, d) == UNION {Range(st[k].phrases) : k \in ShardKeys(st, d)}

\* The keys an index() call on self writes, started on the datastore st.
WrittenKeys(self, st) ==
    Range(IndexLoop(self, IndexLoopStart(self, st), st).loc.index_keys)

\* ceil(n / m)
CeilDiv(n, m) == (n + m - 1) \div m

-----------------------------------------------------------------------------
(* The state machine                                                       *)

NoDoc == [exists |-> FALSE, title |-> <<>>, content |-> <<>>]

\* The model instance db.get returns for the key name d.
Entity(d) == [key |-> d, title |-> docs[d].title, content |-> docs[d].content]

\* indexed[d].state is "never" until index() completes on d, then "indexed",
\* and "renamed" once indexed_title_changed() has run since; again says that
\* the latest index() call repeated the one before it on an unchanged entity.
NeverIndexed ==
    [state |-> "never", again |-> FALSE,
     self |-> [key |-> "", title |-> <<>>, content |-> <<>>]]

\* indexed[d] after an index() call on d that read self completes.
IndexedBy(d, self) ==
    [state |-> "indexed", self |-> self,
     again |-> indexed[d].state = "indexed" /\ indexed[d].self = self]

\* No index() call has aborted, or the document was written since; aborts
\* counts the calls that aborted.
NoRecovery == [state |-> "none", aborts |-> 0]

\* recovery with its record of the aborted call dropped.
Forget(rec) == [state |-> "none", aborts |-> rec.aborts]

NoResult ==
    [phrase |-> <<>>, limit |-> 0, index_keys |-> <<>>, list |-> <<>>,
     error |-> ""]

\* The latest call raised the exception e.
Raised(e) == [NoResult EXCEPT !.error = e]

EmptyStore == [k \in {} |-> 0]

InitWith(D) ==
    /\ cfg \in Configs
    /\ docs = [d \in D |-> NoDoc]
    /\ store = EmptyStore
    /\ indexed = [d \in D |-> NeverIndexed]
    /\ queue = {}
    /\ runs = <<>>
    /\ recovery = NoRecovery
    /\ result = NoResult

Init == InitWith(Docs)

\* page.put() of the entity with key name d: the parent entity is created
\* or overwritten.  An aborted index() call on other values of d is no
\* longer one to retry.
Put(d, title, content) ==
    /\ docs' = [docs EXCEPT ![d] = [exists |-> TRUE, title |-> title,
                                     content |-> content]]
    /\ recovery' = IF recovery.state # "none" /\ recovery.self.key = d
                       /\ recovery.self # [key |-> d, title |-> title,
                                           content |-> content]
                    THEN Forget(recovery) ELSE recovery

\* page = Page(key_name=d, title=..., content=...); page.put()
PutDoc(d, title, content) ==
    /\ Put(d, title, content)
    /\ result' = NoResult
    /\ UNCHANGED <<cfg, store, indexed, queue, runs>>

\* page.index(), start to end.
Index(d) ==
    /\ docs[d].exists
    /\ store' = index(Entity(d), store)
    /\ indexed' = [indexed EXCEPT ![d] = IndexedBy(d, Entity(d))]
    /\ result' = NoResult
    /\ UNCHANGED <<cfg, docs, queue, runs, recovery>>

\* page = Page(key_name=d, title=..., content=...); page.put(); page.index()
PutAndIndex(d, title, content) ==
    LET self == [key |-> d, title |-> title, content |-> content]
    IN  /\ Put(d, title, content)
        /\ store' = index(self, store)
        /\ indexed' = [indexed EXCEPT ![d] = IndexedBy(d, self)]
        /\ result' = NoResult
        /\ UNCHANGED <<cfg, queue, runs>>

\* A rename that does not look for INDEX_TITLE_FROM_PROP.
TitleChangedOutcome_NoRaise(self, st) ==
    [st |-> indexed_title_changed(self, st), error |-> ""]

\* indexed_title_changed() on the datastore st, start to end: the datastore
\* it leaves and the exception it raises, if any.  IndexTitleError is
\* raised, after the fetch of the old keys, when the class declares no
\* INDEX_TITLE_FROM_PROP.
TitleChangedOutcome(self, st) ==
    IF cfg.title_prop
    THEN [st |-> indexed_title_changed(self, st), error |-> ""]
    ELSE [st |-> st, error |-> "IndexTitleError"]

\* page.indexed_title_changed()
TitleChanged(d) ==
    /\ docs[d].exists
    /\ LET outcome == TitleChangedOutcome(Entity(d), store)
       IN  /\ store' = outcome.st
           /\ result' = Raised(outcome.error)
           /\ indexed' = IF outcome.error = "" /\ indexed[d].state # "never"
                         THEN [indexed EXCEPT ![d].state = "renamed"]
                         ELSE indexed
    /\ UNCHANGED <<cfg, docs, queue, runs, recovery>>

\* SearchIndex.get_index_key_name(page, index_num): result keeps the key
\* name with the arguments of the call.
Encode(d, index_num) ==
    /\ docs[d].exists
    /\ result' = [parent |-> Entity(d), index_num |-> index_num,
                  key_name |-> get_index_key_name(Entity(d), NumStr(index_num)),
                  error |-> ""]
    /\ UNCHANGED <<cfg, docs, store, indexed, queue, runs, recovery>>

\* Page.search(phrase, limit, keys_only=True): full_text_search with the
\* class's kind, INDEX_STEMMING and INDEX_MULTI_WORD.
Search(phrase, limit) ==
    /\ result' =
          LET index_keys == SearchIndexKeys(store, phrase, limit, Kind,
                                            cfg.stemming, cfg.multi_word)
          IN  [phrase |-> phrase, limit |-> limit, index_keys |-> index_keys,
               list |-> KeyList(index_keys), error |-> ""]
    /\ UNCHANGED <<cfg, docs, store, indexed, queue, runs, recovery>>

Next ==
    \/ \E d \in DOMAIN docs, title \in Titles, content \in Contents :
          PutDoc(d, title, content)
    \/ \E d \in DOMAIN docs : Index(d)
    \/ \E d \in DOMAIN docs : TitleChanged(d)

Spec == Init /\ [][Next]_vars

-----------------------------------------------------------------------------
(* index() step by step: one datastore call per step                       *)

IdleRun == [pc |-> "idle"]

\* The workers that run index() calls.
Workers == {1}

\* index() starts on worker w: get_search_phrases() and, with
\* INDEX_USES_MULTI_ENTITIES, the fetch of the previous keys.  before keeps
\* the datastore the call started on.
BeginIndex(w, d) ==
    /\ runs[w].pc = "idle"
    /\ docs[d].exists
    /\ runs' = [runs EXCEPT ![w] =
                   [pc |-> "loop", self |-> Entity(d),
                    loc |-> IndexLoopStart(Entity(d), store),
                    before |-> store]]
    /\ UNCHANGED <<cfg, docs, store, indexed, queue, recovery, result>>

\* One iteration of the while loop: one put_index.
PutStep(w) ==
    /\ runs[w].pc = "loop"
    /\ runs[w].loc.num_phrases > 0
    /\ store' = IndexLoopPut(runs[w].self, runs[w].loc, store)
    /\ runs' = [runs EXCEPT ![w].loc = IndexLoopLocals(runs[w].self, @)]
    /\ recovery' = IF recovery.state = "retried" THEN Forget(recovery)
                    ELSE recovery
    /\ UNCHANGED <<cfg, docs, indexed, queue, result>>

\* The loop is over: the delete of the stale keys, and index() returns.
EndIndex(w) ==
    /\ runs[w].pc = "loop"
    /\ runs[w].loc.num_phrases = 0
    /\ store' = IndexDeleteStale(runs[w].loc, store)
    /\ indexed' = [indexed EXCEPT ![runs[w].self.key] =
                      IndexedBy(runs[w].self.key, runs[w].self)]
    /\ recovery' = IF recovery.state = "aborted" /\ recovery.self = runs[w].self
                    THEN [recovery EXCEPT !.state = "retried"]
                    ELSE Forget(recovery)
    /\ runs' = [runs EXCEPT ![w] = IdleRun]
    /\ UNCHANGED <<cfg, docs, queue, result>>

\* The call aborts (a datastore error, a deadline) before its next
\* datastore call: after any number of its put_index calls, before its
\* delete.  recovery keeps what one uninterrupted call would have left.
Abort(w) ==
    /\ runs[w].pc = "loop"
    /\ recovery.aborts < MaxAborts
    /\ runs' = [runs EXCEPT ![w] = IdleRun]
    /\ recovery' =
          IF recovery.state = "aborted" /\ recovery.self = runs[w].self
          THEN [recovery EXCEPT !.aborts = @ + 1]
          ELSE [state |-> "aborted", aborts |-> recovery.aborts + 1,
                self |-> runs[w].self,
                written |-> Len(runs[w].loc.index_keys),
                expected |-> ShardsOf(index(runs[w].self, runs[w].before),
                                      runs[w].self.key)]
    /\ UNCHANGED <<cfg, docs, store, indexed, queue, result>>

\* No index() call is in progress.
AllIdle == \A w \in DOMAIN runs : runs[w].pc = "idle"

NextAbort ==
    \/ \E d \in DOMAIN docs, title \in Titles, content \in Contents :
          AllIdle /\ PutDoc(d, title, content)
    \/ \E w \in DOMAIN runs, d \in DOMAIN docs : BeginIndex(w, d)
    \/ \E w \in DOMAIN runs : PutStep(w)
    \/ \E w \in DOMAIN runs : EndIndex(w)
    \/ \E w \in DOMAIN runs : Abort(w)

\* One worker: index() calls follow one another, and any of them may abort.
InitAbort ==
    /\ cfg \in {c \in Configs : ~c.stemming /\ c.multi_word /\ c.index_only = {}}
    /\ docs = [d \in Docs |-> NoDoc]
    /\ store = EmptyStore
    /\ indexed = [d \in Docs |-> NeverIndexed]
    /\ queue = {}
    /\ runs = [w \in Workers |-> IdleRun]
    /\ recovery = NoRecovery
    /\ result = NoResult

SpecAbort == InitAbort /\ [][NextAbort]_vars

-----------------------------------------------------------------------------
(* Two index() calls at once                                               *)

\* The workers of the two calls.
ConcurrentWorkers == {1, 2}

\* Some other worker is inside an index() call.
OthersRunning(w) == \E v \in DOMAIN runs \ {w} : runs[v].pc = "loop"

\* index() starts on worker w, which has run none yet: as BeginIndex.
\* overlapped says that the call ran while another call was in progress.
IndexStart(w, d) ==
    /\ runs[w].pc = "idle"
    /\ docs[d].exists
    /\ runs' = [v \in DOMAIN runs |->
                   IF v = w
                   THEN [pc |-> "loop", self |-> Entity(d),
                         loc |-> IndexLoopStart(Entity(d), store),
                         overlapped |-> OthersRunning(w)]
                   ELSE IF runs[v].pc = "loop"
                        THEN [runs[v] EXCEPT !.overlapped = TRUE]
                        ELSE runs[v]]
    /\ UNCHANGED <<cfg, docs, store, indexed, queue, recovery, result>>

\* One iteration of the while loop on worker w: one put_index.
IndexPut(w) ==
    /\ runs[w].pc = "loop"
    /\ runs[w].loc.num_phrases > 0
    /\ store' = IndexLoopPut(runs[w].self, runs[w].loc, store)
    /\ runs' = [runs EXCEPT ![w].loc = IndexLoopLocals(runs[w].self, @)]
    /\ UNCHANGED <<cfg, docs, indexed, queue, recovery, result>>

\* The loop is over on worker w: the delete of the stale keys, and index()
\* returns; the worker runs no further call.
IndexFinish(w) ==
    /\ runs[w].pc = "loop"
    /\ runs[w].loc.num_phrases = 0
    /\ store' = IndexDeleteStale(runs[w].loc, store)
    /\ indexed' = [indexed EXCEPT ![runs[w].self.key] =
                      IndexedBy(runs[w].self.key, runs[w].self)]
    /\ runs' = [runs EXCEPT ![w] =
                   [pc |-> "done", self |-> runs[w].self,
                    overlapped |-> runs[w].overlapped]]
    /\ UNCHANGED <<cfg, docs, queue, recovery, result>>

\* The page is saved at any time, also while index() calls are in progress.
NextConcurrent ==
    \/ \E d \in DOMAIN docs, content \in Contents : PutDoc(d, <<>>, content)
    \/ \E w \in DOMAIN runs, d \in DOMAIN docs : IndexStart(w, d)
    \/ \E w \in DOMAIN runs : IndexPut(w)
    \/ \E w \in DOMAIN runs : IndexFinish(w)

InitConcurrent ==
    /\ cfg \in {c \in Configs : /\ c.multi_entities /\ ~c.title_prop
                                /\ ~c.stemming /\ c.multi_word
                                /\ c.index_only = {"content"}}
    /\ docs = [d \in Docs |-> NoDoc]
    /\ store = EmptyStore
    /\ indexed = [d \in Docs |-> NeverIndexed]
    /\ queue = {}
    /\ runs = [w \in ConcurrentWorkers |-> IdleRun]
    /\ recovery = NoRecovery
    /\ result = NoResult

SpecConcurrent == InitConcurrent /\ [][NextConcurrent]_vars

-----------------------------------------------------------------------------
(* The phrase extractor on its own                                         *)

\* The longest text, in fragments.
MaxFragments == 3

\* Fragments with and without punctuation: at the end ('lorem.', 'ipsum,'),
\* at the start ('(dolor'), a stop word and a hyphenated word.
ExtractFragments ==
    {<<"Lorem">>, <<"lorem", ".">>, <<"ipsum">>, <<"ipsum", ",">>,
     <<"(", "dolor">>, <<"of">>, <<"sit", "-", "amet">>}

\* The texts the extractor is applied to.
ExtractTexts ==
    UNION {[1..n -> ExtractFragments] : n \in 1..MaxFragments}

\* What a call of get_search_phraseset returns, with its argument.
Extracted(text) ==
    [text |-> text, phrases |-> get_search_phraseset(text), error |-> ""]

\* Searchable.get_search_phraseset(page.content)
Extract(d) ==
    /\ docs[d].exists
    /\ result' = Extracted(docs[d].content)
    /\ UNCHANGED <<cfg, docs, store, indexed, queue, runs, recovery>>

NextExtract == \E d \in DOMAIN docs : Extract(d)

InitExtract ==
    /\ cfg \in {c \in Configs : /\ c.multi_entities /\ ~c.title_prop
                                /\ ~c.stemming /\ c.multi_word /\ c.ascending
                                /\ c.index_only = {"content"}}
    /\ docs \in [Docs -> {[exists |-> TRUE, title |-> <<>>, content |-> t] :
                            t \in ExtractTexts}]
    /\ store = EmptyStore
    /\ indexed = [d \in Docs |-> NeverIndexed]
    /\ queue = {}
    /\ runs = [w \in Workers |-> IdleRun]
    /\ recovery = NoRecovery
    /\ result = NoResult

SpecExtract == InitExtract /\ [][NextExtract]_vars

-----------------------------------------------------------------------------
(* Indexing through the task queue                                         *)

\* The params of the task enqueue_indexing adds: the key, and only_index
\* joined by blanks when given.
TaskParams(d, only_index) == [key |-> d, only_index |-> JoinText(only_index)]

\* The only_index arguments enqueue_indexing is given.
OnlyIndexArgs == {<<>>, <<<<"content">>>>}

\* MainPage.post: page.put(), then page.enqueue_indexing(url, only_index).
Save(d, title, content, only_index) ==
    /\ Put(d, title, content)
    /\ queue' = queue \cup {TaskParams(d, only_index)}
    /\ UNCHANGED <<cfg, store, indexed, runs, result>>

\* db.delete(page): the parent entity goes, its index entities stay.
DeleteDoc(d) ==
    /\ docs[d].exists
    /\ docs' = [docs EXCEPT ![d] = NoDoc]
    /\ recovery' = Forget(recovery)
    /\ UNCHANGED <<cfg, store, indexed, queue, runs, result>>

\* A handler that answers a task for a missing entity with a server error.
PostOutcome_Fail(task, st) ==
    IF docs[task.key].exists
    THEN [st |-> index(Entity(task.key), st), status |-> 200, indexed |-> TRUE]
    ELSE [st |-> st, status |-> 500, indexed |-> FALSE]

\* SearchIndexing.post on the datastore st, start to end: db.get(key), then
\* status 200 for a missing entity and entity.index() otherwise, whatever
\* only_index the task carries; the response status is 200 either way.
PostOutcome(task, st) ==
    IF docs[task.key].exists
    THEN [st |-> index(Entity(task.key), st), status |-> 200, indexed |-> TRUE]
    ELSE [st |-> st, status |-> 200, indexed |-> FALSE]

\* The handler's response to a task.
Responded(task, status) == [task |-> task, status |-> status, error |-> ""]

\* The queue delivers a task to SearchIndexing.post.  It delivers at least
\* once: again says whether the task will come again.
Post(task, again) ==
    /\ task \in queue
    /\ queue' = IF again THEN queue ELSE queue \ {task}
    /\ LET outcome == PostOutcome(task, store)
       IN  /\ store' = outcome.st
           /\ result' = Responded(task, outcome.status)
           /\ indexed' = IF outcome.indexed
                         THEN [indexed EXCEPT ![task.key] =
                                  IndexedBy(task.key, Entity(task.key))]
                         ELSE indexed
    /\ UNCHANGED <<cfg, docs, runs, recovery>>

NextQueue ==
    \/ \E d \in DOMAIN docs, title \in Titles, content \in Contents,
          only_index \in OnlyIndexArgs :
          Save(d, title, content, only_index)
    \/ \E d \in DOMAIN docs : DeleteDoc(d)
    \/ \E task \in queue, again \in BOOLEAN : Post(task, again)

InitQueue ==
    /\ InitWith(Docs)
    /\ ~cfg.stemming /\ cfg.multi_word /\ cfg.ascending

SpecQueue == InitQueue /\ [][NextQueue]_vars

-----------------------------------------------------------------------------
(* Searching indexed documents                                             *)

NextSearch ==
    \/ \E d \in DOMAIN docs, content \in SearchContents :
          PutAndIndex(d, <<>>, content)
    \/ \E phrase \in SearchPhrases, limit \in 1..MaxLimit :
          Search(phrase, limit)

InitSearch ==
    /\ InitWith(SearchDocs)
    /\ ~cfg.title_prop /\ cfg.index_only = {"content"}

SpecSearch == InitSearch /\ [][NextSearch]_vars

\* Searching documents of inflected words.
NextStem ==
    \/ \E d \in DOMAIN docs, content \in StemContents :
          PutAndIndex(d, <<>>, content)
    \/ \E phrase \in StemPhrases, limit \in 1..MaxLimit :
          Search(phrase, limit)

SpecStem == InitSearch /\ [][NextStem]_vars

\* The contents and the phrases of searches with few usable words: one
\* stop word, three short words, a three-word phrase that starts with a stop
\* word, and a plain word.
FilterContents == {Words(<<"sit", "amet">>), Words(<<"Lorem", "ipsum">>)}
FilterPhrases ==
    {Words(<<"of">>), Words(<<"the", "sit", "of">>),
     Words(<<"the", "Lorem", "ipsum">>), Words(<<"amet">>)}

\* Searching with phrases of stop words and short words.
NextFilter ==
    \/ \E d \in DOMAIN docs, content \in FilterContents :
          PutAndIndex(d, <<>>, content)
    \/ \E phrase \in FilterPhrases, limit \in 1..MaxLimit :
          Search(phrase, limit)

SpecFilter == InitSearch /\ [][NextFilter]_vars

\* Building key names for stored documents.
NextKey ==
    \/ \E d \in DOMAIN docs, title \in KeyTitles : PutDoc(d, title, <<>>)
    \/ \E d \in DOMAIN docs, index_num \in 1..MaxIndexNum :
          Encode(d, index_num)

InitKey ==
    /\ InitWith(KeyDocs)
    /\ cfg.title_prop /\ cfg.multi_entities /\ cfg.multi_word
    /\ ~cfg.stemming /\ cfg.ascending /\ cfg.index_only = {}

SpecKey == InitKey /\ [][NextKey]_vars

-----------------------------------------------------------------------------
(* Claims about Searchable.index, under Spec                               *)

\* C1: when index() returns, every index entity of the document (in the
\* class's mode) has a key that this run wrote, whether or not the class uses
\* multiple index entities.
C1_NoShardLeftUnwritten ==
    [][\A d \in DOMAIN docs :
          Index(d) => ShardKeys(store', d) \subseteq WrittenKeys(Entity(d), store)]_vars

\* C2: with INDEX_USES_MULTI_ENTITIES, once index() has completed on a
\* document, and through any later indexed_title_changed(), the phrases of
\* its index entities together are exactly the phrase set the latest index()
\* produced, and no phrase is stored in two of them.
C2_ShardsPartitionTerms ==
    cfg.multi_entities =>
        \A d \in DOMAIN docs :
            indexed[d].state # "never" =>
                /\ TermUnion(store, d) = PhraseSet(indexed[d].self)
                /\ \A k1, k2 \in ShardKeys(store, d) :
                       k1 # k2 =>
                           Range(store[k1].phrases) \cap Range(store[k2].phrases) = {}

\* A document indexed into several index entities and renamed afterwards.
C2_Witness ==
    /\ cfg.multi_entities
    /\ \E d \in DOMAIN docs :
          /\ indexed[d].state = "renamed"
          /\ Cardinality(ShardKeys(store, d)) >= 2
          /\ \A k \in ShardKeys(store, d) : get_title(k.name) = <<"amet">>

\* C3: with INDEX_USES_MULTI_ENTITIES, after index() completes on a document
\* of n phrases the document has ceil(n / MAX_ENTITY_SEARCH_PHRASES) index
\* entities, numbered 1..k once each, none holding more than
\* MAX_ENTITY_SEARCH_PHRASES phrases.
C3_ShardCountAndNumbers ==
    cfg.multi_entities =>
        \A d \in DOMAIN docs :
            indexed[d].state = "indexed" =>
                LET n == Cardinality(PhraseSet(indexed[d].self))
                    k == CeilDiv(n, MAX_ENTITY_SEARCH_PHRASES)
                    keys == ShardKeys(store, d)
                IN  /\ Cardinality(keys) = k
                    /\ {get_index_num(key.name) : key \in keys}
                           = {NumStr(i) : i \in 1..k}
                    /\ \A key \in keys :
                           Len(store[key].phrases) <= MAX_ENTITY_SEARCH_PHRASES

\* A document of more than 2 * MAX_ENTITY_SEARCH_PHRASES phrases, indexed
\* into three index entities or more.
C3_Witness ==
    /\ cfg.multi_entities
    /\ \E d \in DOMAIN docs :
          /\ indexed[d].state = "indexed"
          /\ Cardinality(PhraseSet(indexed[d].self)) > 2 * MAX_ENTITY_SEARCH_PHRASES
          /\ Cardinality(ShardKeys(store, d)) >= 3

\* C4: an index() call that repeats the call before it, on an entity whose
\* properties are unchanged, leaves the document with as many index entities
\* and the same union of phrases as it found.
C4_IndexIdempotent ==
    [][\A d \in DOMAIN docs :
          (Index(d) /\ indexed[d].state = "indexed" /\ indexed[d].self = Entity(d))
              => /\ Cardinality(ShardKeys(store', d)) = Cardinality(ShardKeys(store, d))
                 /\ TermUnion(store', d) = TermUnion(store, d)]_vars

\* A repeated index() call has completed on a document of several index
\* entities.
C4_Witness ==
    \E d \in DOMAIN docs :
        /\ indexed[d].again
        /\ Cardinality(ShardKeys(store, d)) >= 2

\* The title the key names of the index entities of self carry.
TitleOf(self) == get_title(get_index_key_name(self, NumStr(1)))

\* The phrases stored for document d under each index number.
PhrasesByNum(st, d) ==
    {<<get_index_num(k.name), st[k].phrases>> : k \in ShardKeys(st, d)}

\* The parents of a list full_text_search returns, in order.
Parents(list) == [i \in 1..Len(list) |-> list[i].parent]

\* indexed_title_changed() runs on document d, indexed before under another
\* title, of a class that declares INDEX_TITLE_FROM_PROP.
RenameAfterTitleChange(d) ==
    /\ TitleChanged(d)
    /\ cfg.title_prop
    /\ indexed[d].state = "indexed"
    /\ TitleOf(indexed[d].self) # TitleOf(Entity(d))

\* The rename keeps the index entities of d in number and content, puts the
\* new title in every key name, and searches return the same parents as
\* before, d with the new title.
RenameKeepsShards(d) ==
    /\ Cardinality(ShardKeys(store', d)) = Cardinality(ShardKeys(store, d))
    /\ PhrasesByNum(store', d) = PhrasesByNum(store, d)
    /\ \A k \in ShardKeys(store', d) : get_title(k.name) = TitleOf(Entity(d))
    /\ \A phrase \in RenamePhrases :
          LET before == full_text_search(store, phrase, MaxLimit, Kind,
                                         cfg.stemming, cfg.multi_word)
              after == full_text_search(store', phrase, MaxLimit, Kind,
                                        cfg.stemming, cfg.multi_word)
          IN  /\ Parents(after) = Parents(before)
              /\ \A i \in 1..Len(after) :
                    after[i].parent = d => after[i].title = TitleOf(Entity(d))

\* C13: indexed_title_changed() on a document whose title property changed
\* leaves the number of its index entities, their numbers and the phrases
\* under each number as they were; afterwards every key name of the document
\* carries the new title, none the old, and a search returns the same parent
\* with the new title.
C13_RenameFrame ==
    [][\A d \in DOMAIN docs :
          RenameAfterTitleChange(d) => RenameKeepsShards(d)]_vars

\* The same for classes with INDEX_USES_MULTI_ENTITIES set.
C13_RenameFrameMultiEntities ==
    [][\A d \in DOMAIN docs :
          (RenameAfterTitleChange(d) /\ cfg.multi_entities)
              => RenameKeepsShards(d)]_vars

\* A document of several index entities was renamed after its title changed,
\* and a search for a word of its content finds it under the new title.
C13_Witness ==
    /\ cfg.title_prop /\ cfg.multi_entities
    /\ \E d \in DOMAIN docs :
          /\ indexed[d].state = "renamed"
          /\ TitleOf(indexed[d].self) # TitleOf(Entity(d))
          /\ Cardinality(ShardKeys(store, d)) >= 2
          /\ \A k \in ShardKeys(store, d) : get_title(k.name) = TitleOf(Entity(d))
          /\ \E phrase \in RenamePhrases :
                LET list == full_text_search(store, phrase, MaxLimit, Kind,
                                             cfg.stemming, cfg.multi_word)
                IN  /\ Len(list) > 0
                    /\ list[1] = [parent |-> d, title |-> TitleOf(Entity(d))]

\* C14: indexed_title_changed() on a document of a class that declares no
\* INDEX_TITLE_FROM_PROP raises IndexTitleError and leaves the datastore as
\* it found it: no index entity is written and none is deleted.
C14_RenameWithoutTitleProp ==
    [][\A d \in DOMAIN docs :
          (TitleChanged(d) /\ ~cfg.title_prop)
              => /\ result'.error = "IndexTitleError"
                 /\ store' = store]_vars

\* The rename was refused on a document that has several index entities.
C14_Witness ==
    /\ ~cfg.title_prop
    /\ result.error = "IndexTitleError"
    /\ \E d \in DOMAIN docs : Cardinality(ShardKeys(store, d)) >= 2

\* The phrases of self that index() leaves out of index entity 1: those
\* after the first MAX_ENTITY_SEARCH_PHRASES of the list.
BeyondCap(self) ==
    Range(get_search_phrases(self))
        \ Range(Take(get_search_phrases(self), MAX_ENTITY_SEARCH_PHRASES))

\* C18: without INDEX_USES_MULTI_ENTITIES an index() run writes index entity
\* 1 and no other: every other entity is as the run found it; entity 1
\* holds at most MAX_ENTITY_SEARCH_PHRASES phrases, all from the document's
\* phrase set, and none of the phrases beyond the cap, which the run stores
\* nowhere.
C18_SingleEntityRun ==
    [][\A d \in DOMAIN docs :
          (Index(d) /\ ~cfg.multi_entities) =>
              LET self == Entity(d)
                  first == IndexKey(self, IndexKlass(cfg.stemming), NumStr(1))
              IN  /\ \A k \in (DOMAIN store \cup DOMAIN store') \ {first} :
                        /\ k \in DOMAIN store /\ k \in DOMAIN store'
                        /\ store'[k] = store[k]
                  /\ PhraseSet(self) # {} =>
                        /\ first \in DOMAIN store'
                        /\ get_index_num(first.name) = NumStr(1)
                        /\ Len(store'[first].phrases) <= MAX_ENTITY_SEARCH_PHRASES
                        /\ Range(store'[first].phrases) \subseteq PhraseSet(self)
                        /\ Range(store'[first].phrases) \cap BeyondCap(self) = {}
                  /\ ShardKeys(store, d) = {} =>
                        TermUnion(store', d) \cap BeyondCap(self) = {}]_vars

\* A document of more phrases than the cap was indexed into one index
\* entity that is full.
C18_Witness ==
    /\ ~cfg.multi_entities
    /\ \E d \in DOMAIN docs :
          /\ indexed[d].state = "indexed"
          /\ BeyondCap(indexed[d].self) # {}
          /\ \E k \in ShardKeys(store, d) :
                /\ ShardKeys(store, d) = {k}
                /\ get_index_num(k.name) = NumStr(1)
                /\ Len(store[k].phrases) = MAX_ENTITY_SEARCH_PHRASES

-----------------------------------------------------------------------------
(* Claims about an aborted index(), under SpecAbort                        *)

\* C5: when an index() call aborted and a later call on the unchanged
\* document has completed, the document's index entities are exactly those
\* one uninterrupted call would have left, started on the datastore the
\* aborted call found.
C5_RetryConverges ==
    recovery.state = "retried" =>
        ShardsOf(store, recovery.self.key) = recovery.expected

\* A retry has completed after a call that aborted between two of its
\* put_index calls, in multi-entity mode.
C5_Witness ==
    /\ recovery.state = "retried"
    /\ cfg.multi_entities
    /\ recovery.written >= 1
    /\ Cardinality(DOMAIN recovery.expected) > recovery.written

-----------------------------------------------------------------------------
(* Claims about the task handler, under SpecQueue                          *)

\* C6: once the latest index() that a delivered task ran has read the
\* document as it is now, the document's index entities are exactly those
\* one index() call on the document writes, whatever tasks were delivered
\* before, how often and in which order.
C6_JobsConverge ==
    \A d \in DOMAIN docs :
        (docs[d].exists /\ indexed[d].state = "indexed" /\ indexed[d].self = Entity(d))
            => ShardsOf(store, d) = ShardsOf(index(Entity(d), EmptyStore), d)

\* C6 for the classes with INDEX_USES_MULTI_ENTITIES.
C6_JobsConvergeMultiEntities == cfg.multi_entities => C6_JobsConverge


\* The property names a task's only_index names.
OnlyIndexProps(task) == Range(task.only_index) \ {" "}

\* The phrases index() derives from the named properties of self.
PhrasesOfProps(self, props) ==
    UNION {IF cfg.stemming
           THEN stemWords(IndexingFunc(Properties(self)[p]))
           ELSE IndexingFunc(Properties(self)[p]) :
           p \in props \cap DOMAIN Properties(self)}

\* The handler has just processed the task, for a stored document.
Processed(task) ==
    /\ \E again \in BOOLEAN : Post(task, again)
    /\ docs[task.key].exists

\* C16: after the handler has processed a task enqueued with only_index,
\* every phrase in the document's index entities comes from the text of a
\* property that only_index names.
C16_OnlyIndexJobs ==
    [][\A task \in queue :
          (Processed(task) /\ task.only_index # <<>>)
              => TermUnion(store', task.key)
                     \subseteq PhrasesOfProps(Entity(task.key),
                                              OnlyIndexProps(task))]_vars

\* C17: a task whose key names a document that is no longer stored is
\* answered with status 200, and the datastore of index entities is left as
\* it was.
C17_MissingDocument ==
    [][\A task \in queue :
          ((\E again \in BOOLEAN : Post(task, again)) /\ ~docs[task.key].exists)
              => /\ result'.status = 200
                 /\ store' = store]_vars

\* The handler answered a task for a deleted document that still has index
\* entities.
C17_Witness ==
    /\ "status" \in DOMAIN result
    /\ result.status = 200
    /\ ~docs[result.task.key].exists
    /\ ShardKeys(store, result.task.key) # {}

-----------------------------------------------------------------------------
(* Claims about full_text_search, under SpecSearch                          *)

\* A search has returned and the datastore is as it searched it.
Searched == result.limit > 0

\* The index keys that satisfy the literal tier's query for the phrase; none
\* when the tier does not run.
LiteralMatches(st, phrase) ==
    IF Len(Keywords(phrase)) > 1 /\ cfg.multi_word
    THEN Range(Query(st, IndexKlass(cfg.stemming),
                     LiteralPhrases(Keywords(phrase), cfg.stemming), Kind))
    ELSE {}

\* The index keys that satisfy the keyword tier's query for the phrase.
KeywordMatches(st, phrase) ==
    Range(Query(st, IndexKlass(cfg.stemming),
                KeywordPhrases(Keywords(phrase), cfg.stemming), Kind))

Min(a, b) == IF a < b THEN a ELSE b

\* C7: the list a search returns holds at most one entry per parent key.
C7_OneEntryPerParent ==
    Searched =>
        \A i, j \in 1..Len(result.list) :
            i # j => result.list[i].parent # result.list[j].parent

\* C8: in the returned list no entry that fails the literal tier's query
\* stands before an entry that satisfies it.
C8_LiteralHitsFirst ==
    Searched =>
        \A i, j \in 1..Len(result.index_keys) :
            (i < j /\ result.index_keys[j] \in LiteralMatches(store, result.phrase))
                => result.index_keys[i] \in LiteralMatches(store, result.phrase)

\* A literal-tier hit on document b stands before a keyword-tier hit on
\* document a, against the key order of the datastore.
C8_Witness ==
    /\ Searched
    /\ Len(result.index_keys) = 2
    /\ result.index_keys[1] \in LiteralMatches(store, result.phrase)
    /\ result.index_keys[2] \notin LiteralMatches(store, result.phrase)
    /\ result.list[1].parent = "b"
    /\ result.list[2].parent = "a"

\* C9: when the literal tier has fewer than limit hits, the list holds
\* min(limit, L + K) entries, L the literal-tier hits and K the keyword-tier
\* matches that are not literal-tier hits.
C9_ResultCount ==
    LET literal == LiteralMatches(store, result.phrase)
        keyword == KeywordMatches(store, result.phrase) \ literal
    IN  (Searched /\ Cardinality(literal) < result.limit) =>
            Len(result.list) =
                Min(result.limit, Cardinality(literal) + Cardinality(keyword))


\* The texts index() reads from self: the values of the properties that
\* INDEX_ONLY admits.
IndexedTexts(self) ==
    {Properties(self)[p] :
        p \in {q \in DOMAIN Properties(self) :
                 cfg.index_only = {} \/ q \in cfg.index_only}}

\* get_search_phraseset empties two_words and three_words at this fragment.
BreaksWindow(frag) ==
    LET replaced == StripPunctuation(frag).replaced
    IN  replaced > 0 /\ (replaced > 1 \/ frag[Len(frag)] \notin Punctuation)

\* The words of the fragments of a text, in order.
FragmentWords(text) ==
    LET frags == HyphenSplit(LowerText(text))
    IN  [i \in 1..Len(frags) |-> StripPunctuation(frags[i]).word]

\* The pairs of words of consecutive fragments of a text; with one_window,
\* only the pairs whose second fragment does not empty the window.
AdjacentPairs(text, one_window) ==
    LET frags == HyphenSplit(LowerText(text))
        words == FragmentWords(text)
    IN  {<<words[i], words[i + 1]>> :
            i \in {j \in 1..(Len(frags) - 1) :
                     one_window => ~BreaksWindow(frags[j + 1])}}

\* The phrase of the search is two words, neither a stop word.
TwoWordQuery ==
    /\ Len(Keywords(result.phrase)) = 2
    /\ Range(Keywords(result.phrase)) \cap STOP_WORDS = {}

\* index() has completed on document d as it is now stored.
IndexedAsStored(d) ==
    /\ docs[d].exists
    /\ indexed[d].state = "indexed"
    /\ indexed[d].self = Entity(d)

\* A text of document d holds the two words of the search side by side in
\* one window.
HoldsPair(d) ==
    \E text \in IndexedTexts(Entity(d)) :
        Keywords(result.phrase) \in AdjacentPairs(text, TRUE)

\* The texts of document d hold both words of the search, and nowhere the
\* one right after the other.
HoldsWordsApart(d) ==
    /\ \A w \in Range(Keywords(result.phrase)) :
          \E text \in IndexedTexts(Entity(d)) : w \in Range(FragmentWords(text))
    /\ \A text \in IndexedTexts(Entity(d)) :
          Keywords(result.phrase) \notin AdjacentPairs(text, FALSE)

\* An index entity of document d satisfies the literal tier's query.
LiteralHit(d) ==
    \E k \in LiteralMatches(store, result.phrase) : k.parent = d

\* The literal tier returned an index entity of document d.
LiteralReturned(d) ==
    \E i \in 1..Len(result.index_keys) :
        /\ result.index_keys[i] \in LiteralMatches(store, result.phrase)
        /\ result.list[i].parent = d

\* The literal tier's two-word rule for the documents indexed as stored: one
\* that holds the pair in one window is returned by the tier, if limit admits
\* all the tier's matches; one that holds the words apart is not a hit.
LiteralTierPairs ==
    (Searched /\ cfg.multi_word /\ TwoWordQuery) =>
        \A d \in DOMAIN docs : IndexedAsStored(d) =>
            /\ (/\ HoldsPair(d)
                /\ Cardinality(LiteralMatches(store, result.phrase))
                       <= result.limit)
                   => LiteralReturned(d)
            /\ HoldsWordsApart(d) => ~LiteralHit(d)

KeywordRequired == KeywordPhrases(Keywords(result.phrase), cfg.stemming)

\* The phrases the literal tier requires of an index entity.
LiteralRequired == LiteralPhrases(Keywords(result.phrase), cfg.stemming)

\* The literal tier runs for the phrase of the search.
LiteralTierRuns == Len(Keywords(result.phrase)) > 1 /\ cfg.multi_word

\* One index entity of document d holds every phrase of R.
ShardHoldsAll(d, R) ==
    \E k \in ShardKeys(store, d) : R \subseteq Range(store[k].phrases)

\* An index entity of document d satisfies the keyword tier's query.
KeywordHit(d) ==
    \E k \in KeywordMatches(store, result.phrase) : k.parent = d

\* The parents of the list the search returned.
ResultParents == {result.list[i].parent : i \in 1..Len(result.list)}

\* C11: a tier matches a document exactly when one of its index entities
\* holds every phrase the tier requires; every returned entry is such an
\* entity, so a document holding the phrases only across entities is not
\* returned, and an indexed document whose phrase set fits one entity and
\* holds every required phrase is matched.
C11_AndWithinOneShard ==
    Searched =>
        /\ \A d \in DOMAIN docs :
              /\ KeywordHit(d) <=> ShardHoldsAll(d, KeywordRequired)
              /\ LiteralTierRuns =>
                    (LiteralHit(d) <=> ShardHoldsAll(d, LiteralRequired))
              /\ (/\ ~ShardHoldsAll(d, KeywordRequired)
                  /\ ~(LiteralTierRuns /\ ShardHoldsAll(d, LiteralRequired)))
                    => d \notin ResultParents
              /\ (/\ IndexedAsStored(d)
                  /\ Cardinality(PhraseSet(Entity(d))) <= MAX_ENTITY_SEARCH_PHRASES
                  /\ KeywordRequired \subseteq PhraseSet(Entity(d)))
                    => KeywordHit(d)
        /\ \A i \in 1..Len(result.index_keys) :
              LET held == Range(store[result.index_keys[i]].phrases)
              IN  \/ KeywordRequired \subseteq held
                  \/ LiteralTierRuns /\ LiteralRequired \subseteq held

\* Document a holds both words of the search, in two index entities, and is
\* not returned though limit is not reached; document b holds them in one
\* entity and is returned.
C11_Witness ==
    /\ Searched /\ cfg.multi_entities
    /\ Cardinality(KeywordRequired) = 2
    /\ IndexedAsStored("a")
    /\ KeywordRequired \subseteq TermUnion(store, "a")
    /\ ~ShardHoldsAll("a", KeywordRequired)
    /\ "a" \notin ResultParents
    /\ Len(result.list) < result.limit
    /\ IndexedAsStored("b")
    /\ Cardinality(PhraseSet(Entity("b"))) <= MAX_ENTITY_SEARCH_PHRASES
    /\ "b" \in ResultParents


-----------------------------------------------------------------------------
(* Claims about stemming, under SpecStem                                    *)

\* The word is one the indexing functions keep as a phrase of its own.
Indexable(w) ==
    w \notin STOP_WORDS /\ WordLen(w) >= SEARCH_PHRASE_MIN_LENGTH

\* The words of the texts index() reads from document d.
TextWords(d) ==
    UNION {Range(FragmentWords(text)) : text \in IndexedTexts(Entity(d))}

\* The stemming rule for a search of one indexable word w and the documents
\* indexed as stored: with INDEX_STEMMING a document holding a word of the
\* same stem is returned, if limit admits all the matches; without it a
\* returned document holds w itself.
StemmingRule ==
    LET w == Keywords(result.phrase)[1]
    IN  (Searched /\ Len(Keywords(result.phrase)) = 1 /\ Indexable(w)) =>
            \A d \in DOMAIN docs : IndexedAsStored(d) =>
                /\ (/\ cfg.stemming
                    /\ \E v \in TextWords(d) :
                          Indexable(v) /\ StemOf(v) = StemOf(w)
                    /\ Cardinality(KeywordMatches(store, result.phrase))
                           <= result.limit)
                       => d \in ResultParents
                /\ (~cfg.stemming /\ d \in ResultParents)
                       => w \in TextWords(d)

-----------------------------------------------------------------------------
(* Claims about the key names of index entities, under SpecKey              *)

\* The string does not hold KEY_NAME_DELIMITER.
NoDelimiter(str) ==
    \A i \in 1..(Len(str) - 1) : SubSeq(str, i, i + 1) # KEY_NAME_DELIMITER

\* A key name was built for a parent with a title, and neither the parent's
\* kind and key name nor the title holds the delimiter.
EncodedWithTitle ==
    /\ "key_name" \in DOMAIN result
    /\ result.parent.title # <<>>
    /\ NoDelimiter(<<Kind, " ">> \o KeyAtoms(result.parent.key))
    /\ NoDelimiter(JoinText(result.parent.title))

\* get_index_num and get_title give back the number and the title the key
\* name was built from.
DecodesBack ==
    /\ get_index_num(result.key_name) = NumStr(result.index_num)
    /\ get_title(result.key_name) = JoinText(result.parent.title)

\* C15: for every parent key, index number and title, none holding the
\* delimiter, the key name built from them decodes to that number and title.
C15_KeyRoundTrip == EncodedWithTitle => DecodesBack

\* The same for parent key names that do not end in a bar.
C15_KeyRoundTripPlainEnd ==
    (/\ EncodedWithTitle
     /\ KeyAtoms(result.parent.key)[Len(KeyAtoms(result.parent.key))] # "|")
        => DecodesBack

\* A key name built from a title that starts with a bar decodes back.
C15_Witness ==
    /\ EncodedWithTitle
    /\ result.index_num > 1
    /\ Head(JoinText(result.parent.title)) = "|"
    /\ DecodesBack


-----------------------------------------------------------------------------
(* Claims about two index() calls at once, under SpecConcurrent             *)

\* Both index() calls have returned.
BothDone == \A w \in DOMAIN runs : runs[w].pc = "done"

\* The two calls ran at the same time.
Overlapped == \E w \in DOMAIN runs : runs[w].overlapped

\* The index entities one index() call leaves for document d as stored.
SerialShards(d) == ShardsOf(index(Entity(d), EmptyStore), d)

\* C19: two index() calls on one document that ran one after the other,
\* the later one on the document as it is stored now, leave the index
\* entities of a single call on that document; two calls whose steps
\* interleave can leave others (C19_Witness).
C19_SerialCallsAgree ==
    \A d \in DOMAIN docs :
        (BothDone /\ ~Overlapped /\ IndexedAsStored(d))
            => ShardsOf(store, d) = SerialShards(d)

\* Both calls have returned, their steps interleaved, the call that
\* returned last read the document as it is stored now, and the document
\* has an index entity that no single call on it leaves.
C19_Witness ==
    /\ BothDone /\ Overlapped
    /\ \E d \in DOMAIN docs :
          /\ IndexedAsStored(d)
          /\ ShardsOf(store, d) # SerialShards(d)
          /\ ShardKeys(store, d) \ DOMAIN SerialShards(d) # {}


-----------------------------------------------------------------------------
(* Claims about get_search_phraseset, under SpecExtract                     *)

\* The latest call was one of get_search_phraseset.
HasExtracted == "phrases" \in DOMAIN result

\* The fragment ends in a punctuation character.
EndsInPunctuation(frag) == frag[Len(frag)] \in Punctuation

\* Words k and k + 1 of the term are the words of two consecutive fragments
\* of the text, the first of which ends in punctuation, and of no two
\* consecutive fragments whose first does not.
SpansSentenceEnd(term, text) ==
    LET frags == HyphenSplit(LowerText(text))
        words == FragmentWords(text)
        Here(i, k) == term[k] = words[i] /\ term[k + 1] = words[i + 1]
    IN  \E k \in 1..(Len(term) - 1) :
           /\ \E i \in 1..(Len(frags) - 1) :
                 Here(i, k) /\ EndsInPunctuation(frags[i])
           /\ \A i \in 1..(Len(frags) - 1) :
                 Here(i, k) => EndsInPunctuation(frags[i])

\* Words k and k + 1 of the term are the words of consecutive fragments of
\* the text only where the second fragment empties the window.
SpansReset(term, text) ==
    LET frags == HyphenSplit(LowerText(text))
        words == FragmentWords(text)
        Here(i, k) == term[k] = words[i] /\ term[k + 1] = words[i + 1]
    IN  \E k \in 1..(Len(term) - 1) :
           /\ \E i \in 1..(Len(frags) - 1) : Here(i, k)
           /\ \A i \in 1..(Len(frags) - 1) :
                 Here(i, k) => BreaksWindow(frags[i + 1])

\* C20: no two-word or three-word term that get_search_phraseset returns
\* holds the word of a fragment ending in punctuation followed by the word
\* of the fragment after it.
C20_WindowBreaksAtSentenceEnd ==
    HasExtracted =>
        \A term \in result.phrases : ~SpansSentenceEnd(term, result.text)

\* A call has returned a term that runs over the end of a fragment ending in
\* punctuation.
C20_SpanningTerm ==
    /\ HasExtracted
    /\ \E term \in result.phrases : SpansSentenceEnd(term, result.text)

\* The window the code does break: no term holds the word of a fragment
\* followed by the word of a fragment that has punctuation but not as its
\* only punctuation at its end.
WindowBreaksBeforePunctuated ==
    HasExtracted =>
        \A term \in result.phrases : ~SpansReset(term, result.text)


-----------------------------------------------------------------------------
(* Claims about the filters of full_text_search, under SpecFilter           *)

\* Every term that can be derived from a phrase: each run of one, two or
\* three of its keywords, as typed and stemmed.
DerivedTerms(phrase) ==
    LET keywords == Keywords(phrase)
        runs_of == {SubSeq(keywords, i, j) :
                      i \in 1..Len(keywords), j \in 1..Len(keywords)}
        windows == {t \in runs_of : Len(t) \in 1..3}
    IN  windows \cup {stemWord(t) : t \in windows}

\* The index entity of key k holds a term derived from the phrase searched.
Related(k) ==
    Range(store[k].phrases) \cap DerivedTerms(result.phrase) # {}

\* Each tier that ran for the search had a 'phrases =' filter.
EveryTierFiltered ==
    /\ LiteralTierRuns => LiteralRequired # {}
    /\ KeywordRequired # {}

\* C21: every index entity that search() returns holds at least one term
\* derived from the phrase, also for a phrase of three or more words with no
\* window that qualifies and for a phrase with no word of
\* SEARCH_PHRASE_MIN_LENGTH characters.
C21_ResultsRelated ==
    Searched => \A i \in 1..Len(result.index_keys) : Related(result.index_keys[i])

\* A search returned an index entity that holds no term derived from the
\* phrase.
C21_UnrelatedReturned ==
    /\ Searched
    /\ \E i \in 1..Len(result.index_keys) : ~Related(result.index_keys[i])

\* When every tier that ran had a filter, every returned index entity holds
\* a term derived from the phrase.
FilteredResultsRelated ==
    (Searched /\ EveryTierFiltered) =>
        \A i \in 1..Len(result.index_keys) : Related(result.index_keys[i])


-----------------------------------------------------------------------------
(* Claims about the terms of get_search_phraseset, under SpecExtract        *)

\* The term has an empty word: its join has a leading or a doubled blank.
HasEmptyToken(term) == \E k \in 1..Len(term) : term[k] = ""

\* The term is the words of consecutive fragments of the text.
IsRunOf(term, text) ==
    LET words == FragmentWords(text)
    IN  \E i \in 1..Len(words) :
           /\ i + Len(term) - 1 <= Len(words)
           /\ SubSeq(words, i, i + Len(term) - 1) = term

\* C22: every term get_search_phraseset returns is made of one, two or
\* three words, none of them empty, that follow one another in the text.
C22_NoEmptyToken ==
    HasExtracted =>
        \A term \in result.phrases :
            /\ Len(term) \in 1..3
            /\ ~HasEmptyToken(term)
            /\ IsRunOf(term, result.text)

\* A call has returned a term with an empty word.
C22_EmptyTokenReturned ==
    /\ HasExtracted
    /\ \E term \in result.phrases : HasEmptyToken(term)

\* The terms without an empty word are one, two or three words that follow
\* one another in the text.
FullTermsAreRuns ==
    HasExtracted =>
        \A term \in result.phrases :
            ~HasEmptyToken(term) =>
                Len(term) \in 1..3 /\ IsRunOf(term, result.text)

====
